---- MODULE Spec2Model ----
(***************************************************************************)
(* GladTeX: the per-formula renderer (gleetex/image.py, class Tex2img) and *)
(* the error reporting of the command line front end (gladtex.py, Main).   *)
(*                                                                         *)
(* Texts (Python str) are sequences of lines, a line is a sequence of      *)
(* characters; the empty string is the text of one empty line, as          *)
(* ''.split('\n') == [''].  File names are records [dir, stem, ext]; a     *)
(* directory is a sequence of path components, absolute when it starts     *)
(* with "/", and the empty sequence is the empty directory part.           *)
(***************************************************************************)
EXTENDS Integers, Sequences, FiniteSets, TLC

VARIABLES
    fs,           \* files that exist: <<absolute directory, stem, ext>>
    cwd,          \* the working directory of the process (os.getcwd())
    pc,           \* per renderer: position in Tex2img.convert
    output_name,  \* per renderer: self.output_name
    keep_log,     \* per renderer: self.__keep_log
    dpi,          \* per renderer: self.__dpi
    background,   \* per renderer: self.__background
    foreground,   \* per renderer: self.__foreground
    parsed_data,  \* per renderer: self.__parsed_data
    saved_cwd,    \* per renderer: the local cwd of create_dvi
    latex_cwd,    \* per renderer: working directory the latex process got
    png_cwd,      \* per renderer: working directory the dvipng process got
    data,         \* per renderer: what call() returned, or the raised text
    exc,          \* per renderer: the exception in flight / raised
    dvi_result,   \* per renderer: how create_dvi ended
    png_cmd,      \* per renderer: the command line handed to dvipng
    last_call,    \* the last setter call: <<name, argument, outcome>>
    latex_out,    \* what a failing latex run printed
    lpc,          \* position in the error path of create_dvi
    logdata,      \* parse_log: its argument
    cause,        \* parse_log: its result
    batch,        \* Main: the formulas of the document
    pending,      \* convert_all: indices of the formulas not yet attempted
    failed,       \* convert_all: indices of the formulas that failed
    mpc,          \* Main: position in run / convert_images
    err,          \* Main: the ConversionException caught
    options,      \* Main: the options read by emit_latex_error
    debug,        \* Main: whether os.environ['DEBUG'] is '1'
    written,      \* Main.run: whether the output document was written
    stderr_msg,   \* Main.exit: the text written to stderr
    exit_status,  \* Main.exit: the status given to sys.exit
    rm_files,     \* remove_all: its arguments, the tuple files
    rm_before,    \* remove_all: the files that existed when it was called
    rm_pc         \* remove_all: position of the call

rvars == <<fs, cwd, pc, output_name, keep_log, dpi, background, foreground,
           parsed_data, saved_cwd, latex_cwd, png_cwd, data, exc,
           dvi_result, png_cmd, last_call>>
lvars == <<latex_out, lpc, logdata, cause>>
mvars == <<batch, pending, failed, mpc, err, options, debug, written,
           stderr_msg, exit_status>>
xvars == <<rm_files, rm_before, rm_pc>>
vars == <<rvars, lvars, mvars, xvars>>

----------------------------------------------------------------------------
(* Bounds *)

\* longest tool output explored by parse_log, in lines
MaxLogLines == 4
\* largest batch of formulas
MaxFormulas == 2
\* longest argument list of remove_all
MaxNames == 3

----------------------------------------------------------------------------
(* Python values *)

None == <<>>
NoExc == "none"
EmptyLine == <<>>
EmptyText == <<EmptyLine>>

\* bool(str): the empty string is false
Truthy(text) == text # EmptyText

\* str.startswith
StartsWith(line, prefix) ==
    /\ Len(line) >= Len(prefix)
    /\ SubSeq(line, 1, Len(prefix)) = prefix

\* '\n'.join(list of str)
RECURSIVE JoinLines(_)
JoinLines(texts) ==
    IF texts = <<>> THEN EmptyText
    ELSE IF Len(texts) = 1 THEN texts[1]
    ELSE texts[1] \o JoinLines(Tail(texts))

\* '\n'.join(list of lines): each element is one line without a newline
JoinLineList(lines) == IF lines = <<>> THEN EmptyText ELSE lines

\* str + str, the left operand holding no newline
Prepend(prefix, text) == <<prefix \o text[1]>> \o Tail(text)

Range(s) == {s[i] : i \in 1..Len(s)}

----------------------------------------------------------------------------
(* call (image.py 19-30) and Tex2img.parse_log (image.py 156-175) *)

\* the literals of parse_log
Bang == <<"!", " ">>
NoPagesOf ==
    <<"N", "o", " ", "p", "a", "g", "e", "s", " ", "o", "f">>
OutputWritten ==
    <<"O", "u", "t", "p", "u", "t", " ", "w", "r", "i", "t", "t", "e", "n">>
FatalErrorO ==
    <<"!", " ", " ", "=", "=", ">", " ", "F", "a", "t", "a", "l", " ", "e", "r", "r", "o", "r", " ", "o">>

\* "Error while executing " + ' '.join(cmd), the command kept as words
ErrorWhileExecuting(cmd) ==
    <<"E", "r", "r", "o", "r", " ", "w", "h", "i", "l", "e", " ", "e", "x", "e", "c", "u", "t", "i", "n", "g", " ">> \o cmd

\* data = [d.decode(...) for d in proc.communicate() if d]
CallData(out, errout) == SelectSeq(<<out, errout>>, Truthy)

\* the text of the SubprocessError raised by call on a non-zero exit
CallErrorText(cmd, d) == Prepend(ErrorWhileExecuting(cmd), JoinLines(d))

IsTrailer(line) ==
    \/ StartsWith(line, NoPagesOf)
    \/ StartsWith(line, OutputWritten)
    \/ StartsWith(line, FatalErrorO)

\* The for loop of parse_log from line i on.  lines is the list built so
\* far, idx the positions in the text of the lines appended.  A line that
\* starts with '! ' sets copy and is rebound to line[2:], which nothing
\* reads; only the else branch tests the trailers and appends.
RECURSIVE ParseLoop(_, _, _, _, _)
ParseLoop(text, i, lines, idx, copy) ==
    IF i > Len(text) THEN [lines |-> lines, idx |-> idx]
    ELSE LET line == text[i] IN
         IF StartsWith(line, Bang)
         THEN ParseLoop(text, i + 1, lines, idx, TRUE)
         ELSE IF copy
              THEN IF IsTrailer(line)
                   THEN [lines |-> lines, idx |-> idx]
                   ELSE ParseLoop(text, i + 1, Append(lines, line),
                                  Append(idx, i), TRUE)
              ELSE ParseLoop(text, i + 1, lines, idx, FALSE)

parse_log(text) ==
    IF ~Truthy(text) THEN None
    ELSE JoinLineList(ParseLoop(text, 1, <<>>, <<>>, FALSE).lines)

\* positions of the lines of text that parse_log copies
CopiedIdx(text) == Range(ParseLoop(text, 1, <<>>, <<>>, FALSE).idx)

\* lines a typesetting run may print
LineBanner == <<"T", "e", "X">>
LineError == Bang \o <<"U", "n", "d", "e", "f">>
LineContext == <<"l", ".", "5", " ", "\\", "f", "o", "o">>
LineNoPages == NoPagesOf \o <<" ", "o", "u", "t", "p", "u", "t", ".">>
LineWritten == OutputWritten \o <<" ", "o", "n">>
LineFatal == FatalErrorO \o <<"c", "c", "u", "r", "r", "e", "d">>
LogLineSet == {EmptyLine, LineBanner, LineError, LineContext, LineNoPages,
               LineWritten, LineFatal}

RECURSIVE SeqsUpTo(_, _)
SeqsUpTo(S, n) ==
    IF n = 0 THEN {<<>>}
    ELSE LET shorter == SeqsUpTo(S, n - 1)
         IN shorter \cup {Append(s, x) : s \in shorter, x \in S}

\* every text of at most MaxLogLines lines
LogTexts == SeqsUpTo(LogLineSet, MaxLogLines) \ {<<>>}

LatexCmdWords == <<"latex", " ", "-halt-on-error", " ", "tex_fn">>

----------------------------------------------------------------------------
(* Files and directories (os.path, os.remove, os.chdir) *)

Workers == {1, 2}

\* the directory the process is started in, and the directories that exist
StartDir == <<"/", "w">>
ExistingDirs == {StartDir, StartDir \o <<"img">>, <<"/", "abs">>}

\* directory parts an output name is given with: none, relative, absolute,
\* absolute and equal to the start directory, and one that does not exist
OutputDirs == {<<>>, <<"img">>, <<"/", "abs">>, StartDir, <<"nodir">>}

IsAbs(d) == d # <<>> /\ d[1] = "/"

\* the directory d names for a process whose working directory is at
AbsDir(at, d) == IF d = <<>> THEN at ELSE IF IsAbs(d) THEN d ELSE at \o d

FileAt(at, fn) == <<AbsDir(at, fn.dir), fn.stem, fn.ext>>

\* os.path.splitext(name)[0] + '.' + ext
WithExt(fn, ext) == [fn EXCEPT !.ext = ext]

\* os.path.split(name): (path, basename)
PathSplit(fn) == <<fn.dir, [dir |-> <<>>, stem |-> fn.stem, ext |-> fn.ext]>>

\* os.path.join(path, basename)
PathJoin(path, base) == [base EXCEPT !.dir = path]

\* remove_all(*files) called while the working directory is at: os.remove
\* file by file, and the first OSError ends the loop
RECURSIVE remove_all(_, _, _)
remove_all(files, at, names) ==
    IF names = <<>> THEN files
    ELSE IF FileAt(at, names[1]) \in files
         THEN remove_all(files \ {FileAt(at, names[1])}, at, Tail(names))
         ELSE files

----------------------------------------------------------------------------
(* Tex2img: names, settings and the rasterizer output *)

IsOSError(e) == e \in {"OSError", "FileNotFoundError"}

\* convert, line 143
DviName(out) == WithExt(out, "dvi")
\* create_dvi, lines 91-94
DviPath(out) == PathSplit(DviName(out))[1]
TexName(out) == PathJoin(DviPath(out), WithExt(PathSplit(DviName(out))[2], "tex"))
AuxName(out) == PathJoin(DviPath(out), WithExt(PathSplit(DviName(out))[2], "aux"))
LogName(out) == PathJoin(DviPath(out), WithExt(PathSplit(DviName(out))[2], "log"))

\* create_dvi, line 99: whether the working directory is changed
ChangesDir(current, path) == current # path /\ path # <<>>

\* convert, lines 144-149: where an exception of create_dvi or create_png
\* goes; only OSError is caught (and raised again after the handler)
ConvertHandler(e) == IF IsOSError(e) THEN "conv_except_os" ELSE "raised"

\* convert as it would be with the error of create_dvi swallowed: line 146
\* runs after a failed typeset step
AfterCreateDviRaisesSwallowed(e) ==
    IF IsOSError(e) THEN "conv_except_os" ELSE "png_popen"

\* convert line 145: an exception of create_dvi ends the try block, so
\* line 146 is skipped
AfterCreateDviRaises(e) == ConvertHandler(e)

\* __init__, lines 48-51
DefaultDpi == 100
Transparent == <<"transparent">>
DefaultForeground == <<"r", "g", "b", " ", "0", " ", "0", " ", "0">>
\* set_transparency, line 63
White == <<"r", "g", "b", " ", "1", " ", "1", " ", "1">>

\* create_png, lines 120-124
DvipngCmd(w_dpi, bg, fg, out) ==
    [dpi |-> w_dpi, bg |-> bg, fg |-> fg, o |-> out, dvi |-> DviName(out)]

Digits == {"0", "1", "2", "3", "4", "5", "6", "7", "8", "9"}

\* first position at or after i that holds no digit
RECURSIVE DigitsEnd(_, _)
DigitsEnd(line, i) ==
    IF i <= Len(line) /\ line[i] \in Digits THEN DigitsEnd(line, i + 1) ELSE i

\* the literal lit at position i followed by (\d+)
MatchField(line, i, lit) ==
    LET j == i + Len(lit)
        k == DigitsEnd(line, j)
    IN IF /\ Len(line) >= j - 1
          /\ SubSeq(line, i, j - 1) = lit
          /\ k > j
       THEN [ok |-> TRUE, next |-> k, group |-> SubSeq(line, j, k - 1)]
       ELSE [ok |-> FALSE, next |-> i, group |-> <<>>]

LitDepth == <<" ", "d", "e", "p", "t", "h", "=">>
LitHeight == <<" ", "h", "e", "i", "g", "h", "t", "=">>
LitWidth == <<" ", "w", "i", "d", "t", "h", "=">>

\* DVIPNG_REGEX.search(line), line 40: the groups, or None
RegexSearch(line) ==
    LET d == MatchField(line, 1, LitDepth)
        h == MatchField(line, d.next, LitHeight)
        wd == MatchField(line, h.next, LitWidth)
    IN IF d.ok /\ h.ok /\ wd.ok
       THEN [depth |-> d.group, height |-> h.group, width |-> wd.group]
       ELSE None

\* create_png, lines 133-137: the first matching line of data[0]
RECURSIVE FirstMatch(_, _)
FirstMatch(text, i) ==
    IF i > Len(text) THEN None
    ELSE IF RegexSearch(text[i]) # None THEN RegexSearch(text[i])
         ELSE FirstMatch(text, i + 1)

\* what the rasterizer may print
LineGeometry == <<" ", "d", "e", "p", "t", "h", "=", "1", " ", "h", "e", "i", "g", "h", "t", "=", "9", " ", "w", "i", "d", "t", "h", "=", "1", "2">>
LineNoLeadingSpace == <<"d", "e", "p", "t", "h", "=", "1", " ", "h", "e", "i", "g", "h", "t", "=", "9", " ", "w", "i", "d", "t", "h", "=", "1", "2">>
LineNoDigits == <<" ", "d", "e", "p", "t", "h", "=", " ", "h", "e", "i", "g", "h", "t", "=", "9", " ", "w", "i", "d", "t", "h", "=", "1", "2">>
LineNoise == <<"d", "v", "i", "p", "n", "g">>
DvipngOutputs ==
    {EmptyText,
     <<LineGeometry, EmptyLine>>,
     <<LineNoise, LineGeometry, EmptyLine>>,
     <<LineNoLeadingSpace, EmptyLine>>,
     <<LineNoDigits, EmptyLine>>,
     <<LineNoise, EmptyLine>>}
DvipngErrs == {EmptyText, <<LineNoise, EmptyLine>>}

\* what the typesetting tool may print when it fails
LatexFailOutputs ==
    {EmptyText,
     <<LineBanner, LineError, LineContext, LineNoPages, EmptyLine>>,
     <<LineBanner, LineError, LineContext, LineFatal, LineWritten, EmptyLine>>}

----------------------------------------------------------------------------
(* Tex2img.convert, one step per system call *)

settings == <<output_name, keep_log, dpi, background, foreground, last_call>>
others == <<lvars, mvars, xvars>>

\* convert line 143-145 and create_dvi lines 91-96: the .tex file is
\* written; open raises FileNotFoundError when the directory is missing
CreateDviOpen(w) ==
    /\ pc[w] = "new"
    /\ LET out == output_name[w] IN
       IF AbsDir(cwd, DviPath(out)) \in ExistingDirs
       THEN /\ fs' = fs \cup {FileAt(cwd, TexName(out))}
            /\ pc' = [pc EXCEPT ![w] = "dvi_getcwd"]
            /\ UNCHANGED <<exc, dvi_result>>
       ELSE /\ exc' = [exc EXCEPT ![w] = "FileNotFoundError"]
            /\ dvi_result' = [dvi_result EXCEPT ![w] = "raised"]
            /\ pc' = [pc EXCEPT ![w] =
                         AfterCreateDviRaises("FileNotFoundError")]
            /\ UNCHANGED fs
    /\ UNCHANGED <<cwd, parsed_data, saved_cwd, latex_cwd, png_cwd, data,
                   png_cmd, settings, others>>

\* create_dvi line 98
GetCwd(w) ==
    /\ pc[w] = "dvi_getcwd"
    /\ saved_cwd' = [saved_cwd EXCEPT ![w] = cwd]
    /\ pc' = [pc EXCEPT ![w] = "dvi_chdir"]
    /\ UNCHANGED <<fs, cwd, parsed_data, latex_cwd, png_cwd, data, exc,
                   dvi_result, png_cmd, settings, others>>

\* create_dvi lines 99-100; os.chdir is outside the try statement
Chdir(w) ==
    /\ pc[w] = "dvi_chdir"
    /\ LET path == DviPath(output_name[w]) IN
       IF ChangesDir(saved_cwd[w], path)
       THEN IF AbsDir(cwd, path) \in ExistingDirs
            THEN /\ cwd' = AbsDir(cwd, path)
                 /\ pc' = [pc EXCEPT ![w] = "dvi_popen"]
                 /\ UNCHANGED <<exc, dvi_result>>
            ELSE /\ exc' = [exc EXCEPT ![w] = "FileNotFoundError"]
                 /\ dvi_result' = [dvi_result EXCEPT ![w] = "raised"]
                 /\ pc' = [pc EXCEPT ![w] =
                              AfterCreateDviRaises("FileNotFoundError")]
                 /\ UNCHANGED cwd
       ELSE /\ pc' = [pc EXCEPT ![w] = "dvi_popen"]
            /\ UNCHANGED <<cwd, exc, dvi_result>>
    /\ UNCHANGED <<fs, parsed_data, saved_cwd, latex_cwd, png_cwd, data,
                   png_cmd, settings, others>>

\* create_dvi line 102, call line 23: Popen starts latex in the working
\* directory of the process, or raises FileNotFoundError, which the
\* except clause of line 103 does not catch
LatexPopen(w) ==
    /\ pc[w] = "dvi_popen"
    /\ \/ /\ latex_cwd' = [latex_cwd EXCEPT ![w] = cwd]
          /\ pc' = [pc EXCEPT ![w] = "dvi_wait"]
          /\ UNCHANGED exc
       \/ /\ exc' = [exc EXCEPT ![w] = "FileNotFoundError"]
          /\ pc' = [pc EXCEPT ![w] = "dvi_finally_rm"]
          /\ UNCHANGED latex_cwd
    /\ UNCHANGED <<fs, cwd, parsed_data, saved_cwd, png_cwd, data,
                   dvi_result, png_cmd, settings, others>>

\* the files latex leaves in its working directory
LatexFiles(w, exts) == {<<latex_cwd[w], output_name[w].stem, e>> : e \in exts}

\* call lines 24-30 for latex: the tool exits.  It finds its input only
\* when the name it was given resolves from its working directory;
\* otherwise it stops with texput.log as its only file.
LatexExit(w) ==
    /\ pc[w] = "dvi_wait"
    /\ LET found == FileAt(latex_cwd[w], TexName(output_name[w])) \in fs IN
       \/ /\ found
          /\ fs' = fs \cup LatexFiles(w, {"dvi", "aux", "log"})
          /\ pc' = [pc EXCEPT ![w] = "dvi_finally_rm"]
          /\ UNCHANGED <<exc, data>>
       \/ /\ found
          /\ \E extra \in SUBSET {"aux", "dvi"} :
                 fs' = fs \cup LatexFiles(w, {"log"} \cup extra)
          /\ \E out \in LatexFailOutputs :
                 data' = [data EXCEPT ![w] =
                     CallErrorText(LatexCmdWords, CallData(out, EmptyText))]
          /\ exc' = [exc EXCEPT ![w] = "SubprocessError"]
          /\ pc' = [pc EXCEPT ![w] = "dvi_except_dvi"]
       \/ /\ ~found
          /\ fs' = fs \cup {<<latex_cwd[w], "texput", "log">>}
          /\ \E out \in LatexFailOutputs :
                 data' = [data EXCEPT ![w] =
                     CallErrorText(LatexCmdWords, CallData(out, EmptyText))]
          /\ exc' = [exc EXCEPT ![w] = "SubprocessError"]
          /\ pc' = [pc EXCEPT ![w] = "dvi_except_dvi"]
    /\ UNCHANGED <<cwd, parsed_data, saved_cwd, latex_cwd, png_cwd,
                   dvi_result, png_cmd, settings, others>>

\* create_dvi line 104
DviExceptRmDvi(w) ==
    /\ pc[w] = "dvi_except_dvi"
    /\ fs' = remove_all(fs, cwd, <<DviName(output_name[w])>>)
    /\ pc' = [pc EXCEPT ![w] = "dvi_except_log"]
    /\ UNCHANGED <<cwd, parsed_data, saved_cwd, latex_cwd, png_cwd, data,
                   exc, dvi_result, png_cmd, settings, others>>

\* create_dvi lines 107-111: the message of the error raised at line 112
ErrorMessage(text) ==
    LET parsed == parse_log(text)
    IN IF parsed # None /\ Truthy(parsed) THEN parsed ELSE EmptyText

\* create_dvi lines 105-112
DviExceptRmLog(w) ==
    /\ pc[w] = "dvi_except_log"
    /\ fs' = IF ~keep_log[w]
             THEN remove_all(fs, cwd, <<LogName(output_name[w])>>)
             ELSE fs
    /\ data' = [data EXCEPT ![w] = ErrorMessage(data[w])]
    /\ pc' = [pc EXCEPT ![w] = "dvi_finally_rm"]
    /\ UNCHANGED <<cwd, parsed_data, saved_cwd, latex_cwd, png_cwd, exc,
                   dvi_result, png_cmd, settings, others>>

\* create_dvi line 114
DviFinallyRm(w) ==
    /\ pc[w] = "dvi_finally_rm"
    /\ fs' = remove_all(fs, cwd, <<TexName(output_name[w]),
                                  AuxName(output_name[w])>>)
    /\ pc' = [pc EXCEPT ![w] = "dvi_finally_chdir"]
    /\ UNCHANGED <<cwd, parsed_data, saved_cwd, latex_cwd, png_cwd, data,
                   exc, dvi_result, png_cmd, settings, others>>

\* create_dvi line 115, then the exception in flight leaves create_dvi
DviFinallyChdir(w) ==
    /\ pc[w] = "dvi_finally_chdir"
    /\ cwd' = saved_cwd[w]
    /\ IF exc[w] # NoExc
       THEN /\ dvi_result' = [dvi_result EXCEPT ![w] = "raised"]
            /\ pc' = [pc EXCEPT ![w] = AfterCreateDviRaises(exc[w])]
       ELSE /\ pc' = [pc EXCEPT ![w] = "dvi_rm_log"]
            /\ UNCHANGED dvi_result
    /\ UNCHANGED <<fs, parsed_data, saved_cwd, latex_cwd, png_cwd, data, exc,
                   png_cmd, settings, others>>

\* create_dvi line 116: the log goes whatever keep_log says
DviRmLog(w) ==
    /\ pc[w] = "dvi_rm_log"
    /\ fs' = remove_all(fs, cwd, <<LogName(output_name[w])>>)
    /\ dvi_result' = [dvi_result EXCEPT ![w] = "returned"]
    /\ pc' = [pc EXCEPT ![w] = "png_popen"]
    /\ UNCHANGED <<cwd, parsed_data, saved_cwd, latex_cwd, png_cwd, data,
                   exc, png_cmd, settings, others>>

\* create_png lines 120-127, call line 23: the command is built from the
\* settings and Popen starts dvipng, or raises FileNotFoundError
PngPopen(w) ==
    /\ pc[w] = "png_popen"
    /\ png_cmd' = [png_cmd EXCEPT ![w] =
           DvipngCmd(dpi[w], background[w], foreground[w], output_name[w])]
    /\ data' = [data EXCEPT ![w] = None]
    /\ \/ /\ png_cwd' = [png_cwd EXCEPT ![w] = cwd]
          /\ pc' = [pc EXCEPT ![w] = "png_wait"]
          /\ UNCHANGED exc
       \/ /\ exc' = [exc EXCEPT ![w] = "FileNotFoundError"]
          /\ pc' = [pc EXCEPT ![w] = "png_finally_rm"]
          /\ UNCHANGED png_cwd
    /\ UNCHANGED <<fs, cwd, parsed_data, saved_cwd, latex_cwd, dvi_result,
                   settings, others>>

\* call lines 24-30 for dvipng: the tool exits.  It can succeed only when
\* the .dvi name resolves from its working directory and the directory of
\* the image exists; a failing run may leave a partial image.
PngExit(w) ==
    /\ pc[w] = "png_wait"
    /\ LET out == output_name[w]
           usable == /\ FileAt(png_cwd[w], DviName(out)) \in fs
                     /\ AbsDir(png_cwd[w], out.dir) \in ExistingDirs
       IN
       \/ /\ usable
          /\ fs' = fs \cup {FileAt(png_cwd[w], out)}
          /\ \E o \in DvipngOutputs, e \in DvipngErrs :
                 data' = [data EXCEPT ![w] = CallData(o, e)]
          /\ pc' = [pc EXCEPT ![w] = "png_finally_rm"]
          /\ UNCHANGED exc
       \/ /\ \E partial \in BOOLEAN :
                 fs' = IF partial /\ usable
                       THEN fs \cup {FileAt(png_cwd[w], out)}
                       ELSE fs
          /\ exc' = [exc EXCEPT ![w] = "SubprocessError"]
          /\ pc' = [pc EXCEPT ![w] = "png_except_rm"]
          /\ UNCHANGED data
    /\ UNCHANGED <<cwd, parsed_data, saved_cwd, latex_cwd, png_cwd,
                   dvi_result, png_cmd, settings, others>>

\* create_png lines 128-130
PngExceptRm(w) ==
    /\ pc[w] = "png_except_rm"
    /\ fs' = remove_all(fs, cwd, <<output_name[w]>>)
    /\ pc' = [pc EXCEPT ![w] = "png_finally_rm"]
    /\ UNCHANGED <<cwd, parsed_data, saved_cwd, latex_cwd, png_cwd, data,
                   exc, dvi_result, png_cmd, settings, others>>

\* create_png lines 131-132, then the exception in flight leaves create_png
PngFinallyRm(w) ==
    /\ pc[w] = "png_finally_rm"
    /\ fs' = remove_all(fs, cwd, <<DviName(output_name[w])>>)
    /\ pc' = [pc EXCEPT ![w] =
                 IF exc[w] # NoExc THEN ConvertHandler(exc[w])
                 ELSE "png_parse"]
    /\ UNCHANGED <<cwd, parsed_data, saved_cwd, latex_cwd, png_cwd, data,
                   exc, dvi_result, png_cmd, settings, others>>

\* create_png lines 133-137: what the parsing of data ends with
ParseOutcome(d) ==
    IF d = <<>> THEN "IndexError"
    ELSE IF FirstMatch(d[1], 1) # None THEN NoExc
    ELSE "ValueError"

\* create_png lines 133-137 and convert line 146
PngParse(w) ==
    /\ pc[w] = "png_parse"
    /\ IF ParseOutcome(data[w]) = NoExc
       THEN /\ parsed_data' = [parsed_data EXCEPT ![w] =
                                   FirstMatch(data[w][1], 1)]
            /\ pc' = [pc EXCEPT ![w] = "done"]
            /\ UNCHANGED exc
       ELSE /\ exc' = [exc EXCEPT ![w] = ParseOutcome(data[w])]
            /\ pc' = [pc EXCEPT ![w] = ConvertHandler(ParseOutcome(data[w]))]
            /\ UNCHANGED parsed_data
    /\ UNCHANGED <<fs, cwd, saved_cwd, latex_cwd, png_cwd, data, dvi_result,
                   png_cmd, settings, others>>

\* convert lines 147-149
ConvExceptOs(w) ==
    /\ pc[w] = "conv_except_os"
    /\ fs' = remove_all(fs, cwd, <<output_name[w]>>)
    /\ pc' = [pc EXCEPT ![w] = "raised"]
    /\ UNCHANGED <<cwd, parsed_data, saved_cwd, latex_cwd, png_cwd, data,
                   exc, dvi_result, png_cmd, settings, others>>

Finished(w) == pc[w] \in {"done", "raised"}

----------------------------------------------------------------------------
(* Initial states and specifications of the renderer *)

OutputNames(stem) ==
    {[dir |-> d, stem |-> stem, ext |-> "png"] : d \in OutputDirs}

\* values of the variables a specification does not use
IdleLog ==
    /\ latex_out = EmptyText
    /\ lpc = "off"
    /\ logdata = EmptyText
    /\ cause = None
IdleMain ==
    /\ batch = <<>>
    /\ pending = {}
    /\ failed = {}
    /\ mpc = "off"
    /\ err = None
    /\ options = [machinereadable |-> FALSE, replace_nonascii |-> FALSE]
    /\ debug = FALSE
    /\ written = FALSE
    /\ stderr_msg = None
    /\ exit_status = None

IdleRm ==
    /\ rm_files = <<>>
    /\ rm_before = {}
    /\ rm_pc = "off"

\* Tex2img.__init__, lines 44-51, for the renderers in use.  __init__ sets
\* __keep_log to False and the class has no setter for it; the option is
\* taken in both of its values, as a caller of the attribute can set it.
InitTex2img(used) ==
    /\ cwd = StartDir
    /\ pc = [w \in Workers |-> IF w \in used THEN "new" ELSE "off"]
    /\ output_name \in [Workers -> OutputNames("eqn0") \cup OutputNames("eqn1")]
    /\ \A w \in Workers : output_name[w].stem = IF w = 1 THEN "eqn0" ELSE "eqn1"
    /\ \A w \in Workers \ used : output_name[w].dir = <<>>
    /\ keep_log \in [Workers -> BOOLEAN]
    /\ \A w \in Workers \ used : keep_log[w] = FALSE
    /\ dpi = [w \in Workers |-> DefaultDpi]
    /\ background = [w \in Workers |-> Transparent]
    /\ foreground = [w \in Workers |-> DefaultForeground]
    /\ parsed_data = [w \in Workers |-> None]
    /\ saved_cwd = [w \in Workers |-> None]
    /\ latex_cwd = [w \in Workers |-> None]
    /\ png_cwd = [w \in Workers |-> None]
    /\ data = [w \in Workers |-> None]
    /\ exc = [w \in Workers |-> NoExc]
    /\ dvi_result = [w \in Workers |-> "pending"]
    /\ png_cmd = [w \in Workers |-> None]
    /\ last_call = None

\* the renderers in use, in a start directory without files
InitRenderers(used) ==
    /\ fs = {}
    /\ InitTex2img(used)

\* one renderer
Init ==
    /\ InitRenderers({1})
    /\ IdleLog
    /\ IdleMain
    /\ IdleRm

Next ==
    \/ \E w \in Workers : CreateDviOpen(w)
    \/ \E w \in Workers : GetCwd(w)
    \/ \E w \in Workers : Chdir(w)
    \/ \E w \in Workers : LatexPopen(w)
    \/ \E w \in Workers : LatexExit(w)
    \/ \E w \in Workers : DviExceptRmDvi(w)
    \/ \E w \in Workers : DviExceptRmLog(w)
    \/ \E w \in Workers : DviFinallyRm(w)
    \/ \E w \in Workers : DviFinallyChdir(w)
    \/ \E w \in Workers : DviRmLog(w)
    \/ \E w \in Workers : PngPopen(w)
    \/ \E w \in Workers : PngExit(w)
    \/ \E w \in Workers : PngExceptRm(w)
    \/ \E w \in Workers : PngFinallyRm(w)
    \/ \E w \in Workers : PngParse(w)
    \/ \E w \in Workers : ConvExceptOs(w)

Spec == Init /\ [][Next]_vars

\* two renderers running convert as threads of one process
InitPar ==
    /\ InitRenderers({1, 2})
    /\ keep_log = [w \in Workers |-> FALSE]
    /\ IdleLog
    /\ IdleMain
    /\ IdleRm

SpecPar == InitPar /\ [][Next]_vars

----------------------------------------------------------------------------
(* Properties of one run of convert (Spec) *)

\* the typeset step of renderer w has failed: create_dvi has raised, or an
\* exception is in flight inside it
TypesetFailed(w) ==
    \/ dvi_result[w] = "raised"
    \/ /\ pc[w] \in {"dvi_except_dvi", "dvi_except_log", "dvi_finally_rm",
                     "dvi_finally_chdir"}
       /\ exc[w] # NoExc

\* C1: once the typeset step has failed, whether the tool exited non-zero
\* or could not be executed, the rasterizer is never invoked, no geometry
\* is recorded, and convert ends by raising the error: it is on the error
\* path, and where nothing more can happen it has raised.
C1_TypesetFailureIsTerminal ==
    \A w \in Workers :
        TypesetFailed(w) =>
            /\ png_cmd[w] = None
            /\ parsed_data[w] = None
            /\ exc[w] # NoExc
            /\ pc[w] \in {"dvi_except_dvi", "dvi_except_log", "dvi_finally_rm",
                          "dvi_finally_chdir", "conv_except_os", "raised"}
            /\ ~(ENABLED Next) => pc[w] = "raised"

\* C1 witness: convert has ended by raising after latex exited non-zero
C1_Witness ==
    /\ pc[1] = "raised"
    /\ dvi_result[1] = "raised"
    /\ exc[1] = "SubprocessError"
    /\ latex_cwd[1] # None

\* a second case of C1: latex could not be executed at all
C1_WitnessNotExecutable ==
    /\ pc[1] = "raised"
    /\ dvi_result[1] = "raised"
    /\ exc[1] = "FileNotFoundError"
    /\ saved_cwd[1] # None
    /\ latex_cwd[1] = None

\* the intermediate files of renderer w that exist
Intermediates(w) ==
    {f \in fs : f[2] = output_name[w].stem /\ f[3] \in {"tex", "aux", "dvi"}}

\* C2: once convert has returned or raised, none of the intermediate files
\* of the formula (.tex, .aux, .dvi) exists, whatever the directory part of
\* the output name.
C2_CleanupGuaranteed ==
    \A w \in Workers : Finished(w) => Intermediates(w) = {}

\* latex ran for renderer w and wrote the log of the formula (it writes
\* texput.log instead when it does not find its input)
LogWritten(w) ==
    /\ latex_cwd[w] # None
    /\ pc[w] # "dvi_wait"
    /\ <<latex_cwd[w], "texput", "log">> \notin fs

LogPresent(w) == <<latex_cwd[w], output_name[w].stem, "log">> \in fs

RasterizedWithoutGeometry(w) ==
    /\ png_cmd[w] # None
    /\ png_cwd[w] # None
    /\ exc[w] \notin {"SubprocessError", "FileNotFoundError"}
    /\ pc[w] \notin {"png_wait", "png_finally_rm"}
    /\ \A i \in 1..Len(data[w]) : FirstMatch(data[w][i], 1) = None

\* C6: when the rasterizer succeeds and prints no geometry line, empty
\* output included, convert ends with ValueError and records no geometry.
C6_UnparseableIsValueError ==
    \A w \in Workers :
        (Finished(w) /\ RasterizedWithoutGeometry(w)) =>
            /\ pc[w] = "raised"
            /\ exc[w] = "ValueError"
            /\ parsed_data[w] = None

----------------------------------------------------------------------------
(* Properties of two concurrent runs of convert (SpecPar) *)

\* the working directory renderer w selects for its typesetting run
SelectedDir(w) == AbsDir(StartDir, DviPath(output_name[w]))

\* C7: in every interleaving each latex runs in the directory its renderer
\* selected, and when all renderers have finished no intermediate file is
\* left and the working directory is the one the process started with.
C7_ParallelSafe ==
    /\ \A w \in Workers :
           latex_cwd[w] # None => latex_cwd[w] = SelectedDir(w)
    /\ (\A w \in Workers : Finished(w)) =>
           /\ cwd = StartDir
           /\ \A w \in Workers : Intermediates(w) = {}

\* convert of renderer w has ended with an error raised in the rasterize
\* step: create_dvi had returned, create_png raised
RasterizeFailed(w) ==
    /\ pc[w] = "raised"
    /\ dvi_result[w] = "returned"

\* the image of renderer w, at the path its output name stands for when
\* convert is called
ImageLeft(w) == FileAt(StartDir, output_name[w]) \in fs

\* C12: when convert has ended with an error raised in the rasterize step
\* (non-zero exit, tool not executable, geometry not parseable), no image
\* file is left at the output path.
C12_NoImageAfterRasterizeError ==
    \A w \in Workers : RasterizeFailed(w) => ~ImageLeft(w)

\* the part of C12 about the tool itself failing: a non-zero exit or a tool
\* that cannot be executed leaves no image
C12_ToolFailureLeavesNoImage ==
    \A w \in Workers :
        (RasterizeFailed(w) /\ exc[w] \in {"SubprocessError",
                                           "FileNotFoundError"})
            => ~ImageLeft(w)

----------------------------------------------------------------------------
(* The error path of create_dvi on every bounded tool output (SpecLog) *)

InitLog ==
    /\ latex_out \in LogTexts
    /\ lpc = "called"
    /\ logdata = EmptyText
    /\ cause = None
    /\ InitRenderers({})
    /\ keep_log = [w \in Workers |-> FALSE]
    /\ IdleMain
    /\ IdleRm

\* call lines 26-29: latex exited non-zero, e.args[0] is built
CallRaises ==
    /\ lpc = "called"
    /\ logdata' = CallErrorText(LatexCmdWords, CallData(latex_out, EmptyText))
    /\ lpc' = "raised"
    /\ UNCHANGED <<latex_out, cause, rvars, mvars, xvars>>

\* create_dvi line 109
ParseLog ==
    /\ lpc = "raised"
    /\ cause' = parse_log(logdata)
    /\ lpc' = "parsed"
    /\ UNCHANGED <<latex_out, logdata, rvars, mvars, xvars>>

NextLog == CallRaises \/ ParseLog

SpecLog == InitLog /\ [][NextLog]_vars

\* the least position of S, or 0
FirstOf(S) == IF S = {} THEN 0 ELSE CHOOSE i \in S : \A k \in S : i <= k

HasMarker(line) == StartsWith(line, Bang)
FirstMarker(text) == FirstOf({i \in 1..Len(text) : HasMarker(text[i])})
FirstTrailerAfterMarker(text) ==
    IF FirstMarker(text) = 0 THEN 0
    ELSE FirstOf({i \in 1..Len(text) :
                     i > FirstMarker(text) /\ IsTrailer(text[i])})

\* C4: when the text given to parse_log has a line starting with '! ', the
\* cause begins with the first such line, its marker stripped, and no line
\* before it is copied.
C4_CauseBeginsAtMarker ==
    (lpc = "parsed" /\ FirstMarker(logdata) # 0) =>
        LET i == FirstMarker(logdata)
            line == logdata[i]
        IN /\ cause # None
           /\ cause[1] = SubSeq(line, Len(Bang) + 1, Len(line))
           /\ \A k \in CopiedIdx(logdata) : k > i

\* positions of the lines with text in them that parse_log copies
CopiedText(text) == {k \in CopiedIdx(text) : text[k] # EmptyLine}

\* C5: the cause ends at the first line after the marker that starts with
\* one of the three trailers: neither that line nor any later line of
\* text is copied into the cause.
C5_CauseEndsAtTrailer ==
    (lpc = "parsed" /\ FirstTrailerAfterMarker(logdata) # 0) =>
        \A k \in CopiedText(logdata) : k < FirstTrailerAfterMarker(logdata)

\* the part of C5 about 'No pages of' and 'Output written'
IsReachedTrailer(line) ==
    StartsWith(line, NoPagesOf) \/ StartsWith(line, OutputWritten)
C5_TwoTrailersEnd ==
    (lpc = "parsed" /\ FirstMarker(logdata) # 0) =>
        LET j == FirstOf({i \in 1..Len(logdata) :
                             /\ i > FirstMarker(logdata)
                             /\ IsReachedTrailer(logdata[i])})
        IN j # 0 => \A k \in CopiedIdx(logdata) : k < j

----------------------------------------------------------------------------
(* gladtex.py: Main.convert_images, Main.emit_latex_error, Main.exit *)

\* an int or None: <<n>> or <<>>
Some(n) == <<n>>

\* bool(x) for x an int or None, as tested at lines 298 and 308
TruthyInt(x) == x # None /\ x[1] # 0

\* '%d' % n and '{}'.format(n) for the small numbers of the model
ToStr(n) == <<"0", "1", "2", "3", "4", "5", "6", "7", "8", "9">>[n + 1]

\* the status emit_latex_error exits with, line 318
ExitStatusLatexError == 91

\* formula texts, and the causes a failed conversion reports
Texts == {"x^2", "u-umlaut"}
CauseUndefined == "Undefined control sequence."
CauseInputenc == "Package inputenc Error: Unicode char not set up"
Causes == {CauseUndefined, CauseInputenc}

\* gleetex.typesetting.escape_unicode_maths: non-ASCII characters become
\* LaTeX commands, ASCII text is returned as it is
escape_unicode_maths(formula) ==
    IF formula = "u-umlaut" THEN "\\ddot{u}" ELSE formula

\* 'Package inputenc' in err.args[0], line 289
MentionsInputenc(text) == text = CauseInputenc

Additional ==
    "Add the switch -R to automatically replace unicode characters"

\* emit_latex_error lines 284-317: the message, as the sequence of the
\* literals and the formatted values it is made of
MachineMessage(e, escaped) ==
    (IF TruthyInt(e.src_line_number) /\ TruthyInt(e.src_pos_on_line)
     THEN <<"Line: ", ToStr(e.src_line_number[1]), ", ",
            ToStr(e.src_pos_on_line[1]), "\n">>
     ELSE <<>>)
    \o <<"Number: ", ToStr(e.formula_count), "\nFormula: ", e.formula>>
    \o (IF escaped = e.formula THEN <<>>
        ELSE <<"\nLaTeXified formula: ", escaped>>)
    \o <<"\nMessage: ", e.cause>>
    \o (IF MentionsInputenc(e.args0) THEN <<"; ", Additional>> ELSE <<>>)

HumanMessage(e, escaped) ==
    <<"Error while converting formula ", ToStr(e.formula_count), "\n">>
    \o (IF TruthyInt(e.src_line_number) /\ TruthyInt(e.src_pos_on_line)
        THEN <<" at line ", ToStr(e.src_line_number[1]), ", ",
               ToStr(e.src_pos_on_line[1]), ":\n">>
        ELSE <<>>)
    \o <<"    ", e.formula>>
    \o (IF escaped = e.formula THEN <<>>
        ELSE <<"\nFormula without unicode symbols:\n", "    ", escaped>>)
    \o <<"\n", e.cause>>
    \o (IF MentionsInputenc(e.args0)
        THEN <<" undefined.\n", Additional>> ELSE <<>>)

LatexErrorMessage(e, machine_readable, escape) ==
    LET escaped == IF escape THEN escape_unicode_maths(e.formula)
                   ELSE e.formula
    IN IF machine_readable THEN MachineMessage(e, escaped)
       ELSE HumanMessage(e, escaped)

\* Main.exit lines 101-103: the text written to stderr
ExitText(text) ==
    IF text[Len(text)] \in {"\n", ":\n"} THEN text ELSE Append(text, "\n")

\* the ConversionException raised for formula i of the batch, with the
\* attributes emit_latex_error reads
ExceptionFor(i) ==
    [formula |-> batch[i].text,
     formula_count |-> i,
     cause |-> batch[i].outcome,
     args0 |-> batch[i].outcome,
     src_line_number |-> batch[i].line,
     src_pos_on_line |-> batch[i].col]

\* CachedConverter.convert_all, one formula: every formula is attempted, in
\* any order, and a failure is collected
ConvertOne ==
    /\ mpc = "convert_all"
    /\ \E i \in pending :
          /\ pending' = pending \ {i}
          /\ failed' = IF batch[i].outcome = "ok" THEN failed
                       ELSE failed \cup {i}
    /\ UNCHANGED <<batch, mpc, err, options, debug, written, stderr_msg,
                   exit_status, rvars, lvars,
                   xvars>>

\* convert_images lines 226-230: convert_all returns, or raises the
\* ConversionException that line 228 catches
ConvertAllEnds ==
    /\ mpc = "convert_all"
    /\ pending = {}
    /\ IF failed = {}
       THEN /\ mpc' = "write"
            /\ UNCHANGED err
       ELSE /\ \E i \in failed : err' = ExceptionFor(i)
            /\ mpc' = "emit"
    /\ UNCHANGED <<batch, pending, failed, options, debug, written,
                   stderr_msg, exit_status, rvars, lvars,
                   xvars>>

\* Main.exit as it would be if sys.exit returned to its caller: run goes
\* on at line 232 and writes the output document
AfterExitReturns == "write"

\* Main.exit line 104: sys.exit raises SystemExit, which neither
\* emit_latex_error, convert_images nor run catches, so the run ends
AfterExit == "exited"

\* emit_latex_error lines 282-318 and Main.exit
EmitLatexError ==
    /\ mpc = "emit"
    /\ IF debug
       THEN /\ mpc' = "uncaught"
            /\ UNCHANGED <<stderr_msg, exit_status>>
       ELSE /\ stderr_msg' = ExitText(LatexErrorMessage(err,
                                 options.machinereadable,
                                 options.replace_nonascii))
            /\ exit_status' = Some(ExitStatusLatexError)
            /\ mpc' = AfterExit
    /\ UNCHANGED <<batch, pending, failed, err, options, debug, written,
                   rvars, lvars,
                   xvars>>

\* run lines 190-207: the output document is written
WriteOutput ==
    /\ mpc = "write"
    /\ written' = TRUE
    /\ mpc' = "done"
    /\ UNCHANGED <<batch, pending, failed, err, options, debug, stderr_msg,
                   exit_status, rvars, lvars,
                   xvars>>

----------------------------------------------------------------------------
(* Specifications of Main: a batch (SpecMain), one formula (SpecErr) *)

\* a formula of the document with the outcome of its conversion: "ok" or
\* the cause of the failure
Formulas(lines, cols) ==
    [text : Texts, line : lines, col : cols, outcome : {"ok"} \cup Causes]

\* positions as the parser gives them, known or unknown as a whole
BatchFormulas ==
    Formulas({None}, {None}) \cup Formulas({Some(2)}, {Some(5)})

\* every combination of a known, a zero and an unknown line and column
PositionedFormulas ==
    Formulas({None, Some(0), Some(2)}, {None, Some(0), Some(5)})

InitMain(batches) ==
    /\ batch \in batches
    /\ pending = 1..Len(batch)
    /\ failed = {}
    /\ mpc = "convert_all"
    /\ err = None
    /\ options \in [machinereadable : BOOLEAN, replace_nonascii : BOOLEAN]
    /\ debug \in BOOLEAN
    /\ written = FALSE
    /\ stderr_msg = None
    /\ exit_status = None
    /\ InitRenderers({})
    /\ keep_log = [w \in Workers |-> FALSE]
    /\ IdleLog
    /\ IdleRm

NextMain == ConvertOne \/ ConvertAllEnds \/ EmitLatexError \/ WriteOutput

SpecMain == InitMain(SeqsUpTo(BatchFormulas, MaxFormulas)) /\ [][NextMain]_vars

SpecErr == InitMain({<<f>> : f \in PositionedFormulas}) /\ [][NextMain]_vars

\* the message names formula i of the batch: its index, text and cause
Reports(msg, i) ==
    /\ \E k \in 1..(Len(msg) - 1) :
           /\ msg[k] \in {"Number: ", "Error while converting formula "}
           /\ msg[k + 1] = ToStr(i)
    /\ \E k \in 1..(Len(msg) - 1) :
           /\ msg[k] \in {"\nFormula: ", "    "}
           /\ msg[k + 1] = batch[i].text
    /\ \E k \in 1..(Len(msg) - 1) :
           /\ msg[k] \in {"\nMessage: ", "\n"}
           /\ msg[k + 1] = batch[i].outcome

\* C8: when more than one formula of the batch failed, the error reported
\* names every failing formula with its index, text and cause.
C8_EveryFailureReported ==
    (mpc = "exited" /\ Cardinality(failed) > 1) =>
        \A i \in failed : Reports(stderr_msg, i)

\* the message gives the position line, col
HasPosition(msg, line, col) ==
    \E k \in 1..(Len(msg) - 3) :
        /\ msg[k] \in {"Line: ", " at line "}
        /\ msg[k + 1] = ToStr(line)
        /\ msg[k + 2] = ", "
        /\ msg[k + 3] = ToStr(col)

NoPosition(msg) == \A k \in 1..Len(msg) : msg[k] \notin {"Line: ", " at line "}

\* C9: the message holds the line and column of the formula whenever both
\* are known, 0 included, and no position when one of them is unknown.
C9_PositionWheneverKnown ==
    mpc = "exited" =>
        IF err.src_line_number # None /\ err.src_pos_on_line # None
        THEN HasPosition(stderr_msg, err.src_line_number[1],
                         err.src_pos_on_line[1])
        ELSE NoPosition(stderr_msg)

\* convert_all has raised a conversion error in this run
ConversionErrorRaised == err # None

C11_WitnessWritten ==
    /\ written
    /\ Len(batch) = 2
    /\ mpc = "done"

----------------------------------------------------------------------------
(* The setters of Tex2img (SpecColor) *)

\* Python numbers: an int or a float, its value in tenths
Number(tenths, is_float) == [tenths |-> tenths, float |-> is_float]

\* 0, 0.5, 1, 1.0 and two numbers outside [0, 1]: 1.5 and -0.5
UnitNumbers ==
    {Number(0, FALSE), Number(5, TRUE), Number(10, FALSE), Number(10, TRUE)}
ColorNumbers == UnitNumbers \cup {Number(15, TRUE), Number(-5, TRUE)}
ColorTriples == {<<r, g, b>> : r \in ColorNumbers, g \in ColorNumbers,
                               b \in ColorNumbers}
InUnitRange(rgb) == \A i \in 1..3 : rgb[i].tenths >= 0 /\ rgb[i].tenths <= 10

\* str(x) as '{}'.format(x) writes it
NumberStr(x) ==
    LET a == IF x.tenths < 0 THEN -x.tenths ELSE x.tenths
    IN (IF x.tenths < 0 THEN <<"-">> ELSE <<>>)
       \o <<ToStr(a \div 10)>>
       \o (IF x.float THEN <<".", ToStr(a % 10)>> ELSE <<>>)

\* 'rgb {0[0]} {0[1]} {0[2]}'.format(rgb_list), lines 77 and 83
FormatRgb(rgb) ==
    <<"r", "g", "b", " ">> \o NumberStr(rgb[1]) \o <<" ">>
    \o NumberStr(rgb[2]) \o <<" ">> \o NumberStr(rgb[3])

\* __check_rgb, lines 68-71: the exception it raises, or NoExc.  Line 68
\* calls isinstance with the list [list, tuple] as its second argument,
\* which raises TypeError for every rgb_list; line 70 (all() with two
\* arguments, a TypeError as well) is never reached.
check_rgb(rgb_list) == "TypeError"

DpiValues == {Number(720, FALSE), Number(1000, FALSE), Number(1150, TRUE)}

Called(name, arg, outcome) == [name |-> name, arg |-> arg, exc |-> outcome]

\* set_dpi, lines 53-57
SetDpi(w) ==
    /\ pc[w] = "new"
    /\ \E d \in DpiValues :
          IF d.float
          THEN /\ last_call' = Called("set_dpi", <<d>>, "TypeError")
               /\ UNCHANGED dpi
          ELSE /\ last_call' = Called("set_dpi", <<d>>, NoExc)
               /\ dpi' = [dpi EXCEPT ![w] = d.tenths \div 10]
    /\ UNCHANGED <<fs, cwd, pc, output_name, keep_log, background, foreground,
                   parsed_data, saved_cwd, latex_cwd, png_cwd, data, exc,
                   dvi_result, png_cmd, others>>

\* set_transparency, lines 59-63
SetTransparency(w) ==
    /\ pc[w] = "new"
    /\ \E flag \in BOOLEAN :
          /\ last_call' = Called("set_transparency", <<>>, NoExc)
          /\ background' = [background EXCEPT ![w] =
                               IF flag THEN Transparent ELSE White]
    /\ UNCHANGED <<fs, cwd, pc, output_name, keep_log, dpi, foreground,
                   parsed_data, saved_cwd, latex_cwd, png_cwd, data, exc,
                   dvi_result, png_cmd, others>>

\* set_background_color, lines 73-77
SetBackgroundColor(w) ==
    /\ pc[w] = "new"
    /\ \E rgb \in ColorTriples :
          /\ last_call' = Called("set_background_color", rgb, check_rgb(rgb))
          /\ background' = IF check_rgb(rgb) = NoExc
                           THEN [background EXCEPT ![w] = FormatRgb(rgb)]
                           ELSE background
    /\ UNCHANGED <<fs, cwd, pc, output_name, keep_log, dpi, foreground,
                   parsed_data, saved_cwd, latex_cwd, png_cwd, data, exc,
                   dvi_result, png_cmd, others>>

\* set_foreground_color, lines 79-83
SetForegroundColor(w) ==
    /\ pc[w] = "new"
    /\ \E rgb \in ColorTriples :
          /\ last_call' = Called("set_foreground_color", rgb, check_rgb(rgb))
          /\ foreground' = IF check_rgb(rgb) = NoExc
                           THEN [foreground EXCEPT ![w] = FormatRgb(rgb)]
                           ELSE foreground
    /\ UNCHANGED <<fs, cwd, pc, output_name, keep_log, dpi, background,
                   parsed_data, saved_cwd, latex_cwd, png_cwd, data, exc,
                   dvi_result, png_cmd, others>>

\* one renderer, its output in the working directory, configured and run
InitColor ==
    /\ InitRenderers({1})
    /\ output_name[1].dir = <<>>
    /\ keep_log = [w \in Workers |-> FALSE]
    /\ IdleLog
    /\ IdleMain
    /\ IdleRm

NextColor ==
    \/ \E w \in Workers : SetDpi(w)
    \/ \E w \in Workers : SetTransparency(w)
    \/ \E w \in Workers : SetBackgroundColor(w)
    \/ \E w \in Workers : SetForegroundColor(w)
    \/ Next

SpecColor == InitColor /\ [][NextColor]_vars

\* a colour setter was called last, with a triple of numbers in [0, 1]
ColorJustSet(name) ==
    /\ last_call # None
    /\ last_call.name = name
    /\ InUnitRange(last_call.arg)

\* C10: the setters accept every triple of numbers in [0, 1] and store it
\* as 'rgb r g b', and the rasterizer is invoked with the colours and the
\* resolution that are set.
C10_ColorsReachRasterizer ==
    /\ \A w \in Workers :
           png_cmd[w] # None =>
               /\ png_cmd[w].bg = background[w]
               /\ png_cmd[w].fg = foreground[w]
               /\ png_cmd[w].dpi = dpi[w]
    /\ ColorJustSet("set_background_color") =>
           /\ last_call.exc = NoExc
           /\ background[1] = FormatRgb(last_call.arg)
    /\ ColorJustSet("set_foreground_color") =>
           /\ last_call.exc = NoExc
           /\ foreground[1] = FormatRgb(last_call.arg)

----------------------------------------------------------------------------
(* remove_all on every bounded argument list and set of files (SpecRm) *)

\* the names create_dvi hands to remove_all (lines 104-116) for eqn0.png
RmNames ==
    {[dir |-> <<>>, stem |-> "eqn0", ext |-> e] : e \in {"tex", "aux", "log"}}

\* remove_all is called with any list of these names, repetitions
\* included, while any subset of the files exists
InitRm ==
    /\ rm_files \in SeqsUpTo(RmNames, MaxNames)
    /\ fs \in SUBSET {FileAt(StartDir, n) : n \in RmNames}
    /\ rm_before = {}
    /\ rm_pc = "called"
    /\ InitTex2img({})
    /\ keep_log = [w \in Workers |-> FALSE]
    /\ IdleLog
    /\ IdleMain

\* remove_all lines 12-16: the loop over files, ended by the first OSError,
\* which is dropped; the function returns None
RemoveAll ==
    /\ rm_pc = "called"
    /\ rm_before' = fs
    /\ fs' = remove_all(fs, cwd, rm_files)
    /\ rm_pc' = "returned"
    /\ UNCHANGED <<rm_files, cwd, pc, parsed_data, saved_cwd, latex_cwd,
                   png_cwd, data, exc, dvi_result, png_cmd, settings,
                   lvars, mvars>>

NextRm == RemoveAll

SpecRm == InitRm /\ [][NextRm]_vars

\* the files the arguments of remove_all name
Named == {FileAt(cwd, rm_files[k]) : k \in 1..Len(rm_files)}

\* position of the first argument whose file did not exist when its turn
\* came (it was missing, or removed under an earlier argument), or 0
FirstFailing ==
    FirstOf({k \in 1..Len(rm_files) :
                \/ FileAt(cwd, rm_files[k]) \notin rm_before
                \/ \E j \in 1..(k - 1) : rm_files[j] = rm_files[k]})

\* C13: remove_all behaves like rm -f: once it has returned (it never
\* raises), none of the files it was given exists, whichever of them
\* existed before; a missing file does not keep the files named after it
\* from being removed.
C13_RemoveAllLikeRmF ==
    rm_pc = "returned" => Named \cap fs = {}

\* what remove_all does do: it returns, removes nothing it was not given,
\* and removes every file named before the first failing argument
C13_RemovesUpToFirstFailure ==
    rm_pc = "returned" =>
        /\ fs \subseteq rm_before
        /\ rm_before \ fs \subseteq Named
        /\ \A k \in 1..Len(rm_files) :
               (FirstFailing = 0 \/ k < FirstFailing)
                   => FileAt(cwd, rm_files[k]) \notin fs
        /\ FirstFailing # 0 =>
               \A k \in FirstFailing..Len(rm_files) :
                   FileAt(cwd, rm_files[k]) \in rm_before
                   /\ (\A j \in 1..(FirstFailing - 1) :
                           rm_files[j] # rm_files[k])
                       => FileAt(cwd, rm_files[k]) \in fs

====
